---- MODULE Spec2Model ----
(***************************************************************************)
(* misy: a polyphonic MIDI synthesizer (src/misy.py).                      *)
(*                                                                         *)
(* Two threads share the registry out_keys: the control path               *)
(* (process_midi_event, one MIDI message per call) and the audio path      *)
(* (output_callback, one block per call).  A MIDI message does a single    *)
(* store into the shared state, so each message is one action.  The        *)
(* callback is cut at its accesses to the shared state, so that a message  *)
(* can arrive between any two of them.                                     *)
(*                                                                         *)
(* Time is counted in samples (1/sample_rate seconds): a block of          *)
(* frame_count frames lasts frame_count units, attack_time and             *)
(* release_time are the source's seconds times sample_rate.  The stream    *)
(* asks for blocks of blocksize frames: an attack takes 60 blocks and a    *)
(* release 300, so the behaviours start StartBlocks blocks into the run,   *)
(* with a voice that has BlocksLeft blocks of its attack or release left.  *)
(* A gain is a fraction <<numerator, denominator>>.  The waveform values   *)
(* themselves are not modelled, only which voices are added into the mix   *)
(* and the divisor the mix is scaled by.                                   *)
(*                                                                         *)
(* fmlite (src/fmlite.py) is the monophonic program of the repository: one *)
(* key, one frequency, the same two threads.  Its state is the record      *)
(* fmlite.  wave_samples, the wavetable oscillator of misy, is applied to  *)
(* small tables of integers.                                               *)
(***************************************************************************)
EXTENDS Integers, Sequences, FiniteSets

\* ------------------------------------------------------------ constants

sample_rate == 48000

blocksize == 16

\* attack_time = 0.020 s, release_time = 0.1 s, in samples.
attack_time == (20 * sample_rate) \div 1000

release_time == (100 * sample_rate) \div 1000

\* len(oscillators): sine, saw, square, wave.
n_oscillators == 4

\* The mix is divided by MixFloor until more than MixFloor keys are on.
MixFloor == 8

\* The wavetable holds a wave of this frequency, in Hz.
wavetable_freq == 750

\* fmlite's blocksize.
fm_blocksize == 1024

\* Controller numbers of the Oxygen8 keys the synthesizer reacts to.
CC_STOP == 23

CC_PREV == 21

CC_NEXT == 22

\* ------------------------------------------------------------ bounds

\* Number of distinct keys the keyboard sends messages for.
NumKeys == 1

\* Number of keys already held down in the densest initial chord of SpecMix.
MaxHeld == 9

\* The behaviours start when StartBlocks blocks have been written out and
\* go on for MaxBlocks blocks.
StartBlocks == 360

MaxBlocks == 5

\* Blocks a voice of an initial state has left of its attack or its release.
BlocksLeft == 2

\* Number of keys played on fmlite, and the cap of its sample clock.
FmNumKeys == 2

FmMaxBlocks == 3

\* Entries of the wavetable, their largest value, the latest time and the
\* number of binary digits of a time.
WaveLen == 4

MaxWaveValue == 2

MaxWaveTime == 7

TimeBits == 9

FirstKey == 60

FirstHeldKey == 36

Keys == FirstKey .. (FirstKey + NumKeys - 1)

HeldKeys(h) == FirstHeldKey .. (FirstHeldKey + h - 1)

AllKeys == Keys \cup HeldKeys(MaxHeld)

\* A velocity of 0 and one that is not.
Velocities == {0, 64}

\* The stream is opened with blocksize: every callback has that many frames.
FrameCounts == {blocksize}

StartClock == StartBlocks * blocksize

MaxClock == StartClock + MaxBlocks * blocksize

\* A controller the dispatcher does not know.
CC_OTHER == 7

\* ------------------------------------------------------------ helpers

\* Python's None and a present value, for a field that is None or a number.
None == << >>

Some(x) == << x >>

Val(o) == o[1]

Max(a, b) == IF a >= b THEN a ELSE b

Min(a, b) == IF a <= b THEN a ELSE b

\* np.clip(g, 0.0, 1.0) of the gain num/den.
Clip(num, den) == << Max(0, Min(num, den)), den >>

\* 440 * 2 ** ((key - 69) / 12) in millihertz, rounded down, for the twelve
\* keys TopKey .. TopKey + 11, which lie above every key a lower one is
\* derived from.
TopKey == 120

TopOctave ==
    <<  8372018,  8869844,  9397272,  9956063, 10548081, 11175303,
       11839821, 12543853, 13289750, 14080000, 14917240, 15804265 >>

RECURSIVE Pow2(_)
Pow2(n) == IF n <= 0 THEN 1 ELSE 2 * Pow2(n - 1)

\* 440 * 2 ** ((key - 69) / 12), in millihertz (rounded down), for the MIDI
\* keys 0 .. 127: the key's note in the top octave, halved once for every
\* octave the key lies below it.
key_to_freq(key) ==
    LET semi == (key - TopKey) % 12
        octaves == (TopKey + semi - key) \div 12
    IN  TopOctave[semi + 1] \div Pow2(octaves)

\* A time t of wave_samples is t / TimeDen seconds (TimeDen = 2^TimeBits),
\* a virtual index of the wavetable a multiple of 1 / WaveDen.
TimeDen == Pow2(TimeBits)

WaveDen == wavetable_freq * TimeDen

\* What fmlite's callback has written: nothing yet, or a block that starts
\* at sample clock and is silence or a sine of a frequency.
NoBlock == [ kind |-> "none", clock |-> 0, frequency |-> None ]

\* ------------------------------------------------------------ class Note

\* A slip that leaves the oscillator argument out (always the first one).
NoteDefaultOsc(key, osc) ==
    [ frequency |-> key_to_freq(key),
      attack_time_remaining |-> attack_time,
      out_osc |-> 0,
      playing |-> TRUE,
      release_time_remaining |-> None ]

\* Note.__init__(key, osc)
Note(key, osc) ==
    [ frequency |-> key_to_freq(key),
      attack_time_remaining |-> attack_time,
      out_osc |-> osc,
      playing |-> TRUE,
      release_time_remaining |-> None ]

\* A slip that adds the release time to what remains (+= for =).
releaseAdds(note) ==
    [note EXCEPT !.release_time_remaining =
        Some((IF @ = None THEN 0 ELSE Val(@)) + release_time)]

\* A release that starts from the gain the attack has reached, not from 1.
releaseFromGain(note) ==
    [note EXCEPT !.release_time_remaining =
        IF note.attack_time_remaining > 0
        THEN Some((release_time * (attack_time - note.attack_time_remaining))
                      \div attack_time)
        ELSE Some(release_time)]

\* Note.release(): the note after the call.
release(note) ==
    [note EXCEPT !.release_time_remaining = Some(release_time)]

Over(note) ==
    [ note |-> note, ret |-> "None", branch |-> "over",
      start_gain |-> <<0, 1>>, end_gain |-> <<0, 1>> ]

ReleaseBlock(note, frame_count) ==
    LET r == Val(note.release_time_remaining)
    IN  [ note |-> [note EXCEPT !.release_time_remaining =
                                     Some(Max(0, r - frame_count))],
          ret |-> "samples", branch |-> "release",
          start_gain |-> Clip(r, release_time),
          end_gain |-> Clip(r - frame_count, release_time) ]

AttackBlock(note, frame_count) ==
    LET a == note.attack_time_remaining
    IN  [ note |-> [note EXCEPT !.attack_time_remaining = a - frame_count],
          ret |-> "samples", branch |-> "attack",
          start_gain |-> Clip(attack_time - a, attack_time),
          end_gain |-> Clip(attack_time - (a - frame_count), attack_time) ]

SustainBlock(note) ==
    [ note |-> note, ret |-> "samples", branch |-> "sustain",
      start_gain |-> <<1, 1>>, end_gain |-> <<1, 1>> ]

\* A slip in line 140 (< for <=): a release that has run out is not over.
samplesNeverOver(note, frame_count) ==
    IF ~note.playing THEN Over(note)
    ELSE IF note.release_time_remaining # None
    THEN IF Val(note.release_time_remaining) < 0
         THEN Over([note EXCEPT !.playing = FALSE])
         ELSE ReleaseBlock(note, frame_count)
    ELSE IF note.attack_time_remaining > 0
    THEN AttackBlock(note, frame_count)
    ELSE SustainBlock(note)

\* A slip in the order of lines 137 and 168: the attack is looked at first.
samplesAttackFirst(note, frame_count) ==
    IF ~note.playing THEN Over(note)
    ELSE IF note.attack_time_remaining > 0
    THEN AttackBlock(note, frame_count)
    ELSE IF note.release_time_remaining # None
    THEN IF Val(note.release_time_remaining) <= 0
         THEN Over([note EXCEPT !.playing = FALSE])
         ELSE ReleaseBlock(note, frame_count)
    ELSE SustainBlock(note)

\* Note.samples(t) for a block of frame_count frames: the note after the
\* call, whether samples or None came back, the branch taken and the gains
\* at the two ends of the envelope.
samples(note, frame_count) ==
    IF ~note.playing THEN Over(note)
    ELSE IF note.release_time_remaining # None
    THEN IF Val(note.release_time_remaining) <= 0
         THEN Over([note EXCEPT !.playing = FALSE])
         ELSE ReleaseBlock(note, frame_count)
    ELSE IF note.attack_time_remaining > 0
    THEN AttackBlock(note, frame_count)
    ELSE SustainBlock(note)

\* ------------------------------------------------------------ the dict

\* out_keys is a Python dict: a sequence of entries in insertion order.
Entry(key, note) == [key |-> key, note |-> note]

KeyList(reg) == [i \in 1 .. Len(reg) |-> reg[i].key]

KeySet(reg) == {reg[i].key : i \in 1 .. Len(reg)}

\* key in reg
HasKey(reg, key) == key \in KeySet(reg)

IndexOf(reg, key) == CHOOSE i \in 1 .. Len(reg) : reg[i].key = key

\* reg[key]
Lookup(reg, key) == reg[IndexOf(reg, key)].note

\* reg[key] = note: an existing key keeps its place, a new one goes last.
Store(reg, key, note) ==
    IF HasKey(reg, key)
    THEN [reg EXCEPT ![IndexOf(reg, key)] = Entry(key, note)]
    ELSE Append(reg, Entry(key, note))

\* del reg[key]
Delete(reg, key) ==
    LET i == IndexOf(reg, key)
    IN  SubSeq(reg, 1, i - 1) \o SubSeq(reg, i + 1, Len(reg))

\* ------------------------------------------------------------ state

\* fmlite before its first message: no key, no frequency.  pc is where its
\* output_callback is, failed the exception that ended the main loop,
\* aborted whether an exception of the callback has ended the stream;
\* last_on and released are observers: the key of the latest note on, and
\* whether a note off for that key came after it.
FmInit ==
    [ out_key |-> None, out_frequency |-> None, sample_clock |-> 0,
      running |-> TRUE, pc |-> "idle", out_data |-> NoBlock, failed |-> "",
      aborted |-> FALSE, last_on |-> None, released |-> FALSE ]

\* No call of wave_samples yet, a table of a single entry.
NoWave == [ wavetable |-> << 0 >>, t |-> 0, f |-> 0, out |-> None ]


VARIABLES
    out_keys,       \* the registry: dict key -> Note
    out_osc,        \* index of the current oscillator
    sample_clock,   \* samples output so far
    running,        \* the main loop has not been told to stop
    main,           \* the main thread: where process_midi_event is, the key
                    \* of its note off, the exception that ended it
    pc,             \* where output_callback is: "idle" between two calls
    frame_count,    \* output_callback's argument
    on_keys,        \* output_callback's snapshot of the keys, still to render
    del_keys,       \* output_callback's set of keys to delete
    mix,            \* number of voices added into the local buffer samples
    note_ref,       \* the Note whose samples() is between its read and its
                    \* write of release_time_remaining or
                    \* attack_time_remaining
    nkeys,          \* output_callback's local nkeys
    out_data,       \* what the last finished callback wrote
    rel_frames,     \* observer: frames rendered for a key since its note-off
    last_start,     \* observer: release_time_remaining a key's voice had at
                    \* the start of its latest release block
    printed,        \* the last line printed to standard output
    frames_out,     \* observer: frames of all the blocks written out so far
    fmlite,         \* the state of the monophonic program src/fmlite.py
    wave            \* the wavetable and the latest call of wave_samples

vars == << out_keys, out_osc, sample_clock, running, main, pc, frame_count,
           on_keys, del_keys, mix, note_ref, nkeys, out_data, rel_frames,
           last_start, printed, frames_out, fmlite, wave >>

\* What the steps of misy leave alone.
elsewhere == << fmlite, wave >>

\* The main thread between two messages.
Receiving == [pc |-> "receive", key |-> 0, failed |-> ""]

NoRef == [key |-> 0, live |-> FALSE, field |-> "", value |-> None]

NoData == [voices |-> 0, divisor |-> 0]

InitCallback ==
    /\ main = Receiving
    /\ pc = "idle"
    /\ printed = ""
    /\ frames_out = 0
    /\ fmlite = FmInit
    /\ wave = NoWave
    /\ frame_count = 0
    /\ on_keys = << >>
    /\ del_keys = {}
    /\ mix = 0
    /\ note_ref = NoRef
    /\ nkeys = 0
    /\ out_data = NoData

Init ==
    /\ out_keys = << >>
    /\ out_osc = 0
    /\ sample_clock = 0
    /\ running = TRUE
    /\ rel_frames = [k \in AllKeys |-> -1]
    /\ last_start = [k \in AllKeys |-> None]
    /\ InitCallback

\* attack_time and release_time in blocks.
AttackBlocks == attack_time \div blocksize

ReleaseBlocks == release_time \div blocksize

\* The note after n more blocks have been rendered for it: one call of
\* samples() for each, the first half of the blocks and then the rest (the
\* test of half has the first half computed before the second is begun).
RECURSIVE Played(_, _)
Played(note, n) ==
    IF n <= 0 THEN note
    ELSE IF n = 1 THEN samples(note, blocksize).note
    ELSE LET half == Played(note, n \div 2)
         IN  IF half.playing \in BOOLEAN
             THEN Played(half, n - n \div 2)
             ELSE half

\* The voice of a key pressed AttackBlocks - BlocksLeft blocks ago.
LateAttack(key) == Played(Note(key, 0), AttackBlocks - BlocksLeft)

\* The voice of a key held for its whole attack.
Sustained(key) == Played(Note(key, 0), AttackBlocks)

\* The voice of a key held for its whole attack and let go n blocks ago.
Releasing(key, n) == Played(release(Sustained(key)), n)

\* A chord of h keys pressed since the last block.
Chord(h) ==
    [i \in 1 .. h |-> Entry(FirstHeldKey + i - 1,
                            Note(FirstHeldKey + i - 1, 0))]

\* The program StartBlocks blocks into its run: the key FirstKey was not
\* played (phase "absent"), or was pressed at such a time that its attack
\* ("attack") or, let go after the attack, its release ("release") has
\* BlocksLeft blocks left, or is held with its attack over ("sustain"); h
\* other keys were pressed since the last block.
Started(phases, sizes) ==
    /\ \E phase \in phases, h \in sizes :
          /\ out_keys =
                (CASE phase = "absent" -> << >>
                   [] phase = "attack" ->
                        << Entry(FirstKey, LateAttack(FirstKey)) >>
                   [] phase = "sustain" ->
                        << Entry(FirstKey, Sustained(FirstKey)) >>
                   [] phase = "release" ->
                        << Entry(FirstKey, Releasing(FirstKey,
                                     ReleaseBlocks - BlocksLeft)) >>)
                \o Chord(h)
          /\ rel_frames =
                [k \in AllKeys |->
                    IF k = FirstKey /\ phase = "release"
                    THEN (ReleaseBlocks - BlocksLeft) * blocksize
                    ELSE -1]
          /\ last_start =
                [k \in AllKeys |->
                    IF k = FirstKey /\ phase = "release"
                    THEN Releasing(FirstKey, ReleaseBlocks - BlocksLeft - 1)
                             .release_time_remaining
                    ELSE None]
          /\ out_data = [voices |-> IF phase = "absent" THEN 0 ELSE 1,
                         divisor |-> MixFloor]
    /\ out_osc = 0
    /\ sample_clock = StartClock
    /\ frames_out = StartClock
    /\ running = TRUE
    /\ main = Receiving
    /\ pc = "idle"
    /\ printed = ""
    /\ frame_count = blocksize
    /\ on_keys = << >>
    /\ del_keys = {}
    /\ mix = 0
    /\ note_ref = NoRef
    /\ nkeys = 0
    /\ fmlite = FmInit
    /\ wave = NoWave

\* ------------------------------------------------------ the control path

\* The messages keyboard.receive() hands over: note messages for keys,
NoteMessages(keys) ==
    [type : {"note_on"}, note : keys, velocity : Velocities, control : {0}]
    \cup [type : {"note_off"}, note : keys, velocity : {0}, control : {0}]

\* messages the dispatcher logs and ignores,
IgnoredMessages ==
    [type : {"pitchwheel", "sysex"}, note : {0}, velocity : {0}, control : {0}]
    \cup [type : {"control_change"}, note : {0}, velocity : {0},
          control : {CC_OTHER}]

\* and the three controller keys it reacts to.
ControlMessages ==
    [type : {"control_change"}, note : {0}, velocity : {0},
     control : {CC_PREV, CC_NEXT, CC_STOP}]

\* A slip that leaves out the special case of lines 275-276.
mesg_typeAsSent(mesg) == mesg.type

\* Lines 275-276: a note on with velocity 0 is a note off.
mesg_type(mesg) ==
    IF mesg.type = "note_on" /\ mesg.velocity = 0
    THEN "note_off"
    ELSE mesg.type

\* Lines 279-284: out_keys[key] = Note(key, out_osc).  A Note the callback
\* is in the middle of is no longer the one in the registry.
NoteOn(key) ==
    /\ out_keys' = Store(out_keys, key, Note(key, out_osc))
    /\ note_ref' = IF note_ref.key = key
                   THEN [note_ref EXCEPT !.live = FALSE]
                   ELSE note_ref
    /\ rel_frames' = [rel_frames EXCEPT ![key] = -1]
    /\ last_start' = [last_start EXCEPT ![key] = None]
    /\ UNCHANGED << out_osc, running, printed >>

\* Lines 292-293 with nothing in between: if key in out_keys:
\* out_keys[key].release().
ReleaseKey(reg, key) ==
    IF HasKey(reg, key)
    THEN Store(reg, key, release(Lookup(reg, key)))
    ELSE reg

\* Lines 287-292: the note off up to its test, key in out_keys.  With the
\* key in the registry the main thread goes on to line 293; the callback
\* can run between the two lines.
NoteOff(key) ==
    /\ main' = IF HasKey(out_keys, key)
               THEN [main EXCEPT !.pc = "release", !.key = key]
               ELSE main
    /\ UNCHANGED << out_keys, out_osc, running, note_ref, rel_frames,
                    last_start, printed >>

\* A slip that takes the voice out of the registry at once.
NoteOffRemoves ==
    /\ running
    /\ main.pc = "release"
    /\ out_keys' = IF HasKey(out_keys, main.key)
                   THEN Delete(out_keys, main.key)
                   ELSE out_keys
    /\ rel_frames' = [rel_frames EXCEPT ![main.key] = 0]
    /\ main' = Receiving
    /\ UNCHANGED << out_osc, running, note_ref, last_start, printed,
                    sample_clock, pc, frame_count, on_keys, del_keys, mix,
                    nkeys, out_data, frames_out >>
    /\ UNCHANGED << fmlite, wave >>

\* Line 293: out_keys[key].release().  If the callback has deleted the key
\* since the test of line 292, the lookup raises KeyError: the exception
\* leaves process_midi_event and the main loop, and the program ends as
\* it does after a stop.
NoteOffRelease ==
    /\ running
    /\ main.pc = "release"
    /\ IF HasKey(out_keys, main.key)
       THEN /\ out_keys' = ReleaseKey(out_keys, main.key)
            /\ rel_frames' = [rel_frames EXCEPT ![main.key] = 0]
            /\ main' = Receiving
            /\ UNCHANGED running
       ELSE /\ running' = FALSE
            /\ main' = [main EXCEPT !.pc = "raised", !.failed = "KeyError"]
            /\ UNCHANGED << out_keys, rel_frames >>
    /\ UNCHANGED << out_osc, note_ref, last_start, printed, sample_clock, pc,
                    frame_count, on_keys, del_keys, mix, nkeys, out_data,
                    frames_out >>
    /\ UNCHANGED << fmlite, wave >>

\* Lines 298, 305, 309, 314: the line a control change prints.
ControlLine(control) ==
    IF control = CC_STOP THEN "stop"
    ELSE IF control = CC_PREV THEN "program change -"
    ELSE IF control = CC_NEXT THEN "program change +"
    ELSE "control"

\* out_keys with every voice switched to oscillator osc.
Retuned(reg, osc) ==
    [i \in 1 .. Len(reg) |->
        Entry(reg[i].key, [reg[i].note EXCEPT !.out_osc = osc])]

\* A slip that applies the new selection to the voices that are playing.
ControlChangeRetune(control) ==
    /\ IF control = CC_STOP
       THEN running' = FALSE /\ UNCHANGED << out_osc, out_keys >>
       ELSE IF control = CC_PREV
       THEN out_osc' = (out_osc + n_oscillators - 1) % n_oscillators
            /\ out_keys' = Retuned(out_keys, out_osc')
            /\ UNCHANGED running
       ELSE IF control = CC_NEXT
       THEN out_osc' = (out_osc + 1) % n_oscillators
            /\ out_keys' = Retuned(out_keys, out_osc')
            /\ UNCHANGED running
       ELSE UNCHANGED << out_osc, running, out_keys >>
    /\ printed' = ControlLine(control)
    /\ UNCHANGED << note_ref, rel_frames, last_start >>

\* A slip that leaves out the wrap of lines 307 and 311.
ControlChangeNoWrap(control) ==
    /\ IF control = CC_STOP
       THEN running' = FALSE /\ UNCHANGED out_osc
       ELSE IF control = CC_PREV
       THEN out_osc' = out_osc - 1 /\ UNCHANGED running
       ELSE IF control = CC_NEXT
       THEN out_osc' = out_osc + 1 /\ UNCHANGED running
       ELSE UNCHANGED << out_osc, running >>
    /\ printed' = ControlLine(control)
    /\ UNCHANGED << out_keys, note_ref, rel_frames, last_start >>

\* Lines 295-314: stop, previous oscillator, next oscillator, or ignored.
ControlChange(control) ==
    /\ IF control = CC_STOP
       THEN running' = FALSE /\ UNCHANGED out_osc
       ELSE IF control = CC_PREV
       THEN out_osc' = (out_osc + n_oscillators - 1) % n_oscillators
            /\ UNCHANGED running
       ELSE IF control = CC_NEXT
       THEN out_osc' = (out_osc + 1) % n_oscillators /\ UNCHANGED running
       ELSE UNCHANGED << out_osc, running >>
    /\ printed' = ControlLine(control)
    /\ UNCHANGED << out_keys, note_ref, rel_frames, last_start >>

\* A slip that goes back to the first oscillator on a message it ignores.
IgnoredSelectsFirst(type) ==
    /\ printed' = IF type = "pitchwheel"
                  THEN "pitchwheel"
                  ELSE "unknown MIDI message"
    /\ out_osc' = 0
    /\ UNCHANGED << out_keys, running, note_ref, rel_frames, last_start >>

\* Lines 316-320: pitchwheel and unknown messages are logged and ignored.
Ignored(type) ==
    /\ printed' = IF type = "pitchwheel"
                  THEN "pitchwheel"
                  ELSE "unknown MIDI message"
    /\ UNCHANGED << out_keys, out_osc, running, note_ref, rel_frames,
                    last_start >>

\* process_midi_event() with keyboard.receive() returning mesg: the whole
\* call, but for a note off of a key that is in the registry, which is
\* finished by NoteOffRelease.
process_midi_event(mesg) ==
    /\ running
    /\ main.pc = "receive"
    /\ CASE mesg_type(mesg) = "note_on" ->
                NoteOn(mesg.note) /\ UNCHANGED main
         [] mesg_type(mesg) = "note_off" ->
                NoteOff(mesg.note)
         [] mesg_type(mesg) = "control_change" ->
                ControlChange(mesg.control) /\ UNCHANGED main
         [] OTHER ->
                Ignored(mesg.type) /\ UNCHANGED main
    /\ UNCHANGED << sample_clock, pc, frame_count, on_keys, del_keys, mix,
                    nkeys, out_data, frames_out >>
    /\ UNCHANGED elsewhere

\* ------------------------------------------------------ the audio path

\* np.linspace(start, stop, num), endpoint included as is the default:
\* start + i * (stop - start) / (num - 1) for i = 0 .. num - 1, each a
\* fraction <<numerator, denominator>>.
linspace(start, stop, num) ==
    [i \in 1 .. num |->
        IF num = 1
        THEN << start, 1 >>
        ELSE << start * (num - 1) + (i - 1) * (stop - start), num - 1 >>]

\* Lines 67-73: the sample times of a block, in seconds, as fractions.  The
\* rounding to float32 is left out.
sample_times(fc) ==
    LET t == linspace(sample_clock, sample_clock + fc, fc)
    IN  [i \in 1 .. fc |-> << t[i][1], t[i][2] * sample_rate >>]

\* A slip that leaves out the branch of line 245.
DivisorFixed(n, len_now) == MixFloor

\* Lines 241-245: what the mix is divided by; nkeys is len(out_keys) at line
\* 241 and len_now is len(out_keys) read again at line 245.
Divisor(n, len_now) == IF n <= MixFloor THEN MixFloor ELSE len_now

\* Where the callback goes on after a key of the snapshot has been rendered.
AfterRender(todo, dels) ==
    IF todo # << >> THEN "render"
    ELSE IF dels # {} THEN "prune"
    ELSE "len"

\* Lines 202-211: the call and the line printed when the status flag is
\* set.  The callback never reads the main loop's condition: the stream
\* goes on calling after a stop.
CbStart(fc, status) ==
    /\ pc = "idle"
    /\ sample_clock + fc <= MaxClock
    /\ frame_count' = fc
    /\ printed' = IF status THEN "output callback:" ELSE printed
    /\ out_data' = NoData
    /\ pc' = "snapshot"
    /\ UNCHANGED << out_keys, out_osc, sample_clock, running, main, on_keys,
                    del_keys, mix, note_ref, nkeys, rel_frames, last_start,
                    frames_out >>
    /\ UNCHANGED elsewhere

\* Lines 214-224: the silent buffer, the test of out_keys and the snapshot
\* of its keys.  The control path only adds keys, so a message handled
\* between the test (line 217) and the snapshot (line 222) leaves what a
\* message handled before the test leaves.
CbSnapshot ==
    /\ pc = "snapshot"
    /\ mix' = 0
    /\ del_keys' = {}
    /\ IF out_keys # << >>
       THEN on_keys' = KeyList(out_keys) /\ pc' = "render"
       ELSE on_keys' = << >> /\ pc' = "len"
    /\ UNCHANGED << out_keys, out_osc, sample_clock, running, main,
                    frame_count, note_ref, nkeys, out_data, rel_frames,
                    last_start, printed, frames_out >>
    /\ UNCHANGED elsewhere

\* Frames rendered for key since its note-off, after one more samples() call.
Rendered(key, note) ==
    IF note.release_time_remaining # None /\ rel_frames[key] >= 0
    THEN [rel_frames EXCEPT ![key] = @ + frame_count]
    ELSE rel_frames

\* Lines 227-233 for the next key of the snapshot: note = out_keys[key] and
\* note.samples(t), up to its return or, in the release and the attack
\* branch, up to its read of release_time_remaining (line 139) or of
\* attack_time_remaining (line 170).
CbSamples ==
    /\ pc = "render"
    /\ LET key == Head(on_keys)
           note == Lookup(out_keys, key)
           res == samples(note, frame_count)
       IN  /\ HasKey(out_keys, key)
           /\ rel_frames' = Rendered(key, note)
           /\ IF res.branch \in {"release", "attack"}
              THEN /\ pc' = "write"
                   /\ note_ref' =
                         [key |-> key, live |-> TRUE, field |-> res.branch,
                          value |-> IF res.branch = "release"
                                    THEN res.note.release_time_remaining
                                    ELSE Some(res.note.attack_time_remaining)]
                   /\ last_start' =
                         IF res.branch = "release"
                         THEN [last_start EXCEPT ![key] =
                                   note.release_time_remaining]
                         ELSE last_start
                   /\ UNCHANGED << out_keys, on_keys, del_keys, mix >>
              ELSE /\ out_keys' = Store(out_keys, key, res.note)
                   /\ on_keys' = Tail(on_keys)
                   /\ del_keys' = IF res.ret = "None"
                                   THEN del_keys \cup {key} ELSE del_keys
                   /\ mix' = IF res.ret = "None" THEN mix ELSE mix + 1
                   /\ pc' = AfterRender(on_keys', del_keys')
                   /\ UNCHANGED << note_ref, last_start >>
    /\ UNCHANGED << out_osc, sample_clock, running, main, frame_count, nkeys,
                    out_data, printed, frames_out >>
    /\ UNCHANGED elsewhere

\* The Note note_ref stands for after the write of line 167 or line 195.
Written(note) ==
    IF note_ref.field = "release"
    THEN [note EXCEPT !.release_time_remaining = note_ref.value]
    ELSE [note EXCEPT !.attack_time_remaining = Val(note_ref.value)]

\* Line 167 or line 195, then line 233: the branch writes back
\* release_time_remaining or attack_time_remaining, to the Note it was
\* called on, and the samples are added into the mix.
CbWrite ==
    /\ pc = "write"
    /\ out_keys' =
          IF note_ref.live
          THEN Store(out_keys, note_ref.key,
                     Written(Lookup(out_keys, note_ref.key)))
          ELSE out_keys
    /\ mix' = mix + 1
    /\ on_keys' = Tail(on_keys)
    /\ note_ref' = NoRef
    /\ pc' = AfterRender(on_keys', del_keys)
    /\ UNCHANGED << out_osc, sample_clock, running, main, frame_count,
                    del_keys, nkeys, out_data, rel_frames, last_start,
                    printed, frames_out >>
    /\ UNCHANGED elsewhere

\* Lines 236-237: del out_keys[key], one key of del_keys at a time.
CbPrune ==
    /\ pc = "prune"
    /\ \E key \in del_keys :
          /\ HasKey(out_keys, key)
          /\ out_keys' = Delete(out_keys, key)
          /\ del_keys' = del_keys \ {key}
          /\ last_start' = [last_start EXCEPT ![key] = None]
    /\ pc' = IF del_keys' = {} THEN "len" ELSE "prune"
    /\ UNCHANGED << out_osc, sample_clock, running, main, frame_count,
                    on_keys, mix, note_ref, nkeys, out_data, rel_frames,
                    printed, frames_out >>
    /\ UNCHANGED elsewhere

\* Line 241: nkeys = len(out_keys).
CbLen ==
    /\ pc = "len"
    /\ nkeys' = Len(out_keys)
    /\ pc' = "scale"
    /\ UNCHANGED << out_keys, out_osc, sample_clock, running, main,
                    frame_count, on_keys, del_keys, mix, note_ref, out_data,
                    rel_frames, last_start, printed, frames_out >>
    /\ UNCHANGED elsewhere

\* A slip that bumps the sample clock only for a block that has sound.
CbScaleSkipsSilence ==
    /\ pc = "scale"
    /\ out_data' = [voices |-> mix, divisor |-> Divisor(nkeys, Len(out_keys))]
    /\ sample_clock' = IF mix > 0 THEN sample_clock + frame_count
                       ELSE sample_clock
    /\ frames_out' = frames_out + frame_count
    /\ pc' = "idle"
    /\ mix' = 0
    /\ nkeys' = 0
    /\ UNCHANGED << out_keys, out_osc, running, main, frame_count, on_keys,
                    del_keys, note_ref, rel_frames, last_start, printed >>
    /\ UNCHANGED elsewhere

\* Lines 242-253: scale the mix, write it out, bump the sample clock.
CbScale ==
    /\ pc = "scale"
    /\ out_data' = [voices |-> mix, divisor |-> Divisor(nkeys, Len(out_keys))]
    /\ sample_clock' = sample_clock + frame_count
    /\ frames_out' = frames_out + frame_count
    /\ pc' = "idle"
    /\ mix' = 0
    /\ nkeys' = 0
    /\ UNCHANGED << out_keys, out_osc, running, main, frame_count, on_keys,
                    del_keys, note_ref, rel_frames, last_start, printed >>
    /\ UNCHANGED elsewhere

\* output_callback() called with a frame count of fcs and a status flag of
\* statuses.
Callback(fcs, statuses) ==
    \/ \E fc \in fcs, status \in statuses : CbStart(fc, status)
    \/ CbSnapshot
    \/ CbSamples
    \/ CbWrite
    \/ CbPrune
    \/ CbLen
    \/ CbScale

\* The stream calls back with blocksize frames, the status flag set or not.
output_callback == Callback(FrameCounts, BOOLEAN)

\* ------------------------------------------------------ specifications

\* The two threads, a message of msgs arriving anywhere between two steps
\* of the callback.
Step(msgs) ==
    \/ \E mesg \in msgs : process_midi_event(mesg)
    \/ NoteOffRelease
    \/ output_callback

ChordSizes == {0} \cup ((MaxHeld - 2) .. MaxHeld)

\* A chord is pressed over the key FirstKey, absent or in its release.
InitMix == Started({"absent", "release"}, ChordSizes)

\* The key FirstKey is absent, in its attack, held or in its release.
Phases == {"absent", "attack", "sustain", "release"}

InitPlayed == Started(Phases, {0})

\* Keys are played.
Next == Step(NoteMessages(Keys) \cup IgnoredMessages)

Spec == InitPlayed /\ [][Next]_vars

\* The same, the stream calling back as long as it runs: a call that can
\* begin does begin, and a call that has begun goes on to its end.
SpecPrune == InitPlayed /\ [][Next]_vars /\ WF_vars(output_callback)

\* One key is played and the controller keys are used, one other key
\* pressed since the last block.
InitControl == Started(Phases, {1})

NextControl ==
    Step(NoteMessages({FirstKey}) \cup IgnoredMessages \cup ControlMessages)

SpecControl == InitControl /\ [][NextControl]_vars

\* One key is played over a held chord.
NextMix == Step(NoteMessages({FirstKey}) \cup IgnoredMessages)

SpecMix == InitMix /\ [][NextMix]_vars

\* ------------------------------------------------------ wave_samples

\* len(wavetable)
nwavetable == Len(wave.wavetable)

\* Lines 79-88: wave_samples(t, f) for the time t / TimeDen seconds and the
\* frequency f in Hz.  The virtual index t0 = (f / wavetable_freq) * the
\* time * sample_rate, modulo nwavetable, and its fractional part are
\* counted in units of 1 / WaveDen; the value returned is WaveDen times the
\* sample.  The code computes in float32; the arithmetic here is exact, and
\* the times and frequencies drawn are those for which every float32
\* operation of lines 80-88 is exact: times that are binary fractions of a
\* second and frequencies that are wavetable_freq times a binary fraction.
wave_samples(t, f) ==
    LET t0 == (f * t * sample_rate) % (nwavetable * WaveDen)
        int_part == t0 \div WaveDen
        frac_part == t0 - int_part * WaveDen
        i0 == int_part
        i1 == (i0 + 1) % nwavetable
        x0 == wave.wavetable[i0 + 1]
        x1 == wave.wavetable[i1 + 1]
    IN  x0 * frac_part + x1 * (WaveDen - frac_part)

\* The tables: WaveLen entries of WaveValues.
WaveValues == 0 .. MaxWaveValue

WaveTables == [1 .. WaveLen -> WaveValues]

\* The reference frequency, half of it and three halves of it.
WaveFreqs == {wavetable_freq, wavetable_freq \div 2, (3 * wavetable_freq) \div 2}

\* Times of 0 .. MaxWaveTime units of 1 / TimeDen seconds.
WaveTimes == 0 .. MaxWaveTime

InitWave ==
    /\ out_keys = << >>
    /\ out_osc = 0
    /\ sample_clock = 0
    /\ running = TRUE
    /\ main = Receiving
    /\ rel_frames = [k \in AllKeys |-> -1]
    /\ last_start = [k \in AllKeys |-> None]
    /\ pc = "idle"
    /\ printed = ""
    /\ frames_out = 0
    /\ fmlite = FmInit
    /\ frame_count = 0
    /\ on_keys = << >>
    /\ del_keys = {}
    /\ mix = 0
    /\ note_ref = NoRef
    /\ nkeys = 0
    /\ out_data = NoData
    /\ \E table \in WaveTables :
          wave = [ wavetable |-> table, t |-> 0, f |-> 0, out |-> None ]

\* A call wave_samples(t, f) for one sample time.
WaveCall ==
    /\ \E t \in WaveTimes, f \in WaveFreqs :
          wave' = [wave EXCEPT !.t = t, !.f = f,
                               !.out = Some(wave_samples(t, f))]
    /\ UNCHANGED << out_keys, out_osc, sample_clock, running, main, pc,
                    frame_count, on_keys, del_keys, mix, note_ref, nkeys,
                    out_data, rel_frames, last_start, printed, frames_out,
                    fmlite >>

SpecWave == InitWave /\ [][WaveCall]_vars

\* ------------------------------------------------------ fmlite

\* The keys played on fmlite.
FmKeys == FirstKey .. (FirstKey + FmNumKeys - 1)

\* One block of fmlite: blocksize frames.
FmMaxClock == FmMaxBlocks * fm_blocksize

\* What misy's variables are to a step of fmlite.
misy_vars ==
    << out_keys, out_osc, sample_clock, running, main, pc, frame_count,
       on_keys, del_keys, mix, note_ref, nkeys, out_data, rel_frames,
       last_start, printed, frames_out, wave >>

\* Lines 53-58: out_key and out_frequency are written one after the other;
\* out_key is read by this thread only, so the two writes are one step.
FmNoteOn(key) ==
    fmlite' = [fmlite EXCEPT !.out_key = Some(key),
                             !.out_frequency = Some(key_to_freq(key)),
                             !.last_on = Some(key),
                             !.released = FALSE]

\* Lines 59-65: the note off clears the key that is sounding, no other.
FmNoteOff(key) ==
    fmlite' = [fmlite EXCEPT
                 !.out_key = IF fmlite.out_key = Some(key) THEN None ELSE @,
                 !.out_frequency =
                     IF fmlite.out_key = Some(key) THEN None ELSE @,
                 !.released = (@ \/ fmlite.last_on = Some(key))]

\* Lines 66-71: controller 23 stops, the others are logged.
FmControlChange(control) ==
    fmlite' = [fmlite EXCEPT !.running = (control # CC_STOP)]

\* Lines 72-76: a pitchwheel is logged, any other message fails the assert
\* and the exception ends the main loop.
FmOther(type) ==
    fmlite' = IF type = "pitchwheel"
              THEN fmlite
              ELSE [fmlite EXCEPT !.running = FALSE,
                                  !.failed = "AssertionError"]

\* fmlite's process_midi_event() with keyboard.receive() returning mesg.
FmMessage(mesg) ==
    /\ fmlite.running
    /\ CASE mesg_type(mesg) = "note_on" -> FmNoteOn(mesg.note)
         [] mesg_type(mesg) = "note_off" -> FmNoteOff(mesg.note)
         [] mesg_type(mesg) = "control_change" -> FmControlChange(mesg.control)
         [] OTHER -> FmOther(mesg.type)
    /\ UNCHANGED misy_vars

\* Lines 14-20 and, with no frequency, 29-33: the test of out_frequency,
\* the silent block and the bump of the sample clock.  The callback never
\* reads the main loop's condition; only its own exception ends the stream.
FmCbTest ==
    /\ ~fmlite.aborted
    /\ fmlite.pc = "idle"
    /\ fmlite.sample_clock + fm_blocksize <= FmMaxClock
    /\ fmlite' =
          IF fmlite.out_frequency = None
          THEN [fmlite EXCEPT
                  !.out_data = [ kind |-> "silence",
                                 clock |-> fmlite.sample_clock,
                                 frequency |-> None ],
                  !.sample_clock = @ + fm_blocksize]
          ELSE [fmlite EXCEPT !.pc = "sine"]
    /\ UNCHANGED misy_vars

\* Lines 21-33: out_frequency is read again at line 27.  If a note off has
\* cleared it since the test, 2 * np.pi * None raises TypeError and the
\* stream calls back no more.
FmCbSine ==
    /\ fmlite.pc = "sine"
    /\ fmlite' =
          IF fmlite.out_frequency = None
          THEN [fmlite EXCEPT !.pc = "idle", !.aborted = TRUE]
          ELSE [fmlite EXCEPT
                  !.pc = "idle",
                  !.out_data = [ kind |-> "sine",
                                 clock |-> fmlite.sample_clock,
                                 frequency |-> fmlite.out_frequency ],
                  !.sample_clock = @ + fm_blocksize]
    /\ UNCHANGED misy_vars

\* The two threads of fmlite, messages of msgs arriving.
FmStep(msgs) ==
    \/ \E mesg \in msgs : FmMessage(mesg)
    \/ FmCbTest
    \/ FmCbSine

NextFm == FmStep(NoteMessages(FmKeys) \cup IgnoredMessages \cup ControlMessages)

SpecFm == Init /\ [][NextFm]_vars

\* misy and fmlite, each with its own keyboard, notes only.
NextNoteOff ==
    \/ Step(NoteMessages({FirstKey}))
    \/ FmStep(NoteMessages(FmKeys))

SpecNoteOff == InitPlayed /\ [][NextNoteOff]_vars

\* ------------------------------------------------------------ claims

\* The voices output_callback's pruning loop deletes in a step.
Deleted == KeySet(out_keys) \ KeySet(out_keys')

\* C1: whatever the interleaving of the two threads, every entry the
\* callback deletes is a voice whose samples() returned None (a voice that
\* is over: playing = False); a voice a note-on has just inserted is not
\* deleted before it has itself reported completion.
C1_DeletesOnlyFinishedVoices ==
    [][\A key \in Deleted : ~Lookup(out_keys, key).playing]_vars

\* C2: when a callback ends, the mix has been divided by 8 if at most 8
\* voices are left in the registry after pruning (0 and exactly 8
\* included), and by the number of voices left if that is more than 8.
\* The number of voices left after pruning is the one the callback itself
\* takes at line 241.
C2_DivisorFollowsVoicesLeft ==
    [][(pc = "scale" /\ pc' = "idle") =>
          out_data'.divisor = IF nkeys <= 8 THEN 8 ELSE nkeys]_vars

\* C3: whatever the interleaving of note messages with a callback, the
\* divisor of the block is at least the number of voices that were added
\* into its mix, and at least 8.
C3_DivisorCoversMix ==
    out_data # NoData =>
        /\ out_data.divisor >= out_data.voices
        /\ out_data.divisor >= 8

\* More than 8 voices were mixed and a key arrived while they were: the
\* divisor counts a voice the mix does not hold.
C3_Witness ==
    /\ out_data.voices > 8
    /\ out_data.divisor > out_data.voices

\* The step is a note on (velocity not 0) for key.
NoteOnStep(key) ==
    \E mesg \in NoteMessages({key}) :
        mesg_type(mesg) = "note_on" /\ process_midi_event(mesg)

\* The step is the release() of a note off for key (or of a note on with
\* velocity 0), line 293, the key being in the registry.
NoteOffStep(key) ==
    main.key = key /\ HasKey(out_keys, key) /\ NoteOffRelease

\* key holds the same voice before and after the step.
SameVoice(key) ==
    HasKey(out_keys, key) /\ HasKey(out_keys', key) /\ ~NoteOnStep(key)

\* C4: after a note on with a velocity that is not 0 for a key, whatever
\* the registry held for it, the registry holds exactly one voice for the
\* key, a fresh one (the whole attack ahead, no release pending, playing,
\* the oscillator that is selected now), and the entries of all other
\* keys are as they were.
C4_NoteOnStartsFreshVoice ==
    [][\A key \in AllKeys :
          NoteOnStep(key) =>
              /\ Cardinality({i \in 1 .. Len(out_keys') :
                                  out_keys'[i].key = key}) = 1
              /\ Lookup(out_keys', key).attack_time_remaining = attack_time
              /\ Lookup(out_keys', key).release_time_remaining = None
              /\ Lookup(out_keys', key).playing
              /\ Lookup(out_keys', key).out_osc = out_osc
              /\ \A other \in AllKeys \ {key} :
                    /\ HasKey(out_keys', other) = HasKey(out_keys, other)
                    /\ HasKey(out_keys, other) =>
                          Lookup(out_keys', other) = Lookup(out_keys, other)
      ]_vars

\* A note on has replaced a voice that was over and is about to be deleted,
\* next to another key's voice, with an oscillator that is not the first.
C4_Witness ==
    /\ Len(out_keys) > 1
    /\ \E key \in del_keys :
          /\ HasKey(out_keys, key)
          /\ Lookup(out_keys, key) = Note(key, out_osc)
          /\ out_osc # 0

\* C5: release(key) is idempotent: for every state of the registry and
\* every key, releasing the key twice gives the registry that releasing
\* it once gives.
C5_ReleaseIdempotent ==
    \A key \in AllKeys :
        ReleaseKey(ReleaseKey(out_keys, key), key) = ReleaseKey(out_keys, key)

\* A voice part of the way through its release: a release changes it.
C5_Witness ==
    \E key \in Keys :
        /\ HasKey(out_keys, key)
        /\ Lookup(out_keys, key).release_time_remaining # None
        /\ ReleaseKey(out_keys, key) # out_keys

\* C6: once a voice is in its release, the release_time_remaining its
\* blocks start from never goes up from one rendered block to the next,
\* whatever messages arrive, and release_time_remaining is never negative.
C6_ReleaseNeverGoesUp ==
    [][\A key \in AllKeys :
          /\ (last_start[key] # None /\ last_start'[key] # None) =>
                Val(last_start'[key]) <= Val(last_start[key])
          /\ (HasKey(out_keys, key)
                /\ Lookup(out_keys, key).release_time_remaining # None) =>
                Val(Lookup(out_keys, key).release_time_remaining) >= 0
      ]_vars

\* A released voice that has at most BlocksLeft blocks of its release left
\* and has got no message since its note off.
NearlyOver(key) ==
    /\ HasKey(out_keys, key)
    /\ rel_frames[key] >= release_time - BlocksLeft * blocksize

\* A callback that starts when the blocks rendered for a key since its
\* note off amount to release_time or more has removed the key when it
\* ends.
PrunedInTime ==
    pc = "idle" =>
        \A key \in KeySet(out_keys) :
            rel_frames[key] >= 0 =>
                rel_frames[key] - frame_count < release_time

\* C7: for a key whose note off found a voice and that got no message
\* since (rel_frames counts the frames rendered since the note off and is
\* reset by every later message for the key), the callback that starts
\* when the blocks rendered since the note off amount to release_time or
\* more removes the key; with the stream calling back, a released voice
\* is in the end pruned, unless a later message for its key arrives.
C7_ReleasedVoicePruned ==
    /\ []PrunedInTime
    /\ \A key \in Keys :
          NearlyOver(key) ~> (~HasKey(out_keys, key) \/ ~NearlyOver(key))

\* A callback has removed a key release_time or more after its note off.
C7_Witness ==
    /\ pc = "idle"
    /\ \E key \in Keys :
          /\ ~HasKey(out_keys, key)
          /\ rel_frames[key] - frame_count >= release_time

\* Attack 0, sustain 1, release 2, over 3.
Phase(note) ==
    IF ~note.playing THEN 3
    ELSE IF note.release_time_remaining # None THEN 2
    ELSE IF note.attack_time_remaining <= 0 THEN 1
    ELSE 0

\* C8: the phase of a voice only moves forward, attack, sustain, release,
\* over: a voice whose release was requested renders no attack or sustain
\* block, and a voice whose samples() returned None returns None at every
\* later call, also after another release().
C8_PhaseOnlyForward ==
    [][\A key \in AllKeys :
          /\ HasKey(out_keys, key) =>
                LET note == Lookup(out_keys, key)
                IN  \A fc \in FrameCounts :
                      /\ note.release_time_remaining # None =>
                            samples(note, fc).branch \in {"release", "over"}
                      /\ ~note.playing =>
                            /\ samples(note, fc).ret = "None"
                            /\ ~samples(note, fc).note.playing
                            /\ samples(release(note), fc).ret = "None"
          /\ SameVoice(key) =>
                Phase(Lookup(out_keys', key)) >= Phase(Lookup(out_keys, key))
      ]_vars

\* A voice that is over has been released once more.
C8_Witness ==
    \E key \in Keys :
        /\ HasKey(out_keys, key)
        /\ ~Lookup(out_keys, key).playing
        /\ Lookup(out_keys, key).release_time_remaining = Some(release_time)

\* The voice of key is in its attack.
Attacking(reg, key) ==
    /\ HasKey(reg, key)
    /\ Lookup(reg, key).playing
    /\ Lookup(reg, key).release_time_remaining = None
    /\ Lookup(reg, key).attack_time_remaining > 0

\* What a release() during the attack does: release_time_remaining is
\* release_time and the next block is a release block that starts at gain
\* 1 whatever was left of the attack; and no samples() call on a released
\* voice takes the attack branch or writes attack_time_remaining.
ReleaseEndsAttack(key) ==
    /\ (NoteOffStep(key) /\ Attacking(out_keys, key)) =>
          LET before == Lookup(out_keys, key)
              after == Lookup(out_keys', key)
          IN  /\ after.release_time_remaining = Some(release_time)
              /\ after.attack_time_remaining = before.attack_time_remaining
              /\ \A fc \in FrameCounts :
                    /\ samples(after, fc).branch = "release"
                    /\ samples(after, fc).start_gain =
                          << release_time, release_time >>
                    /\ samples(after, fc).note.attack_time_remaining =
                          before.attack_time_remaining
    /\ (HasKey(out_keys, key)
          /\ Lookup(out_keys, key).release_time_remaining # None) =>
          \A fc \in FrameCounts :
              /\ samples(Lookup(out_keys, key), fc).branch
                    \in {"release", "over"}
              /\ samples(Lookup(out_keys, key), fc).note.attack_time_remaining
                    = Lookup(out_keys, key).attack_time_remaining

\* The step is the write of line 195 by a samples() call on the voice of
\* key that read attack_time_remaining (line 170) before the step.
AttackWriteBack(key) ==
    /\ pc = "write"
    /\ note_ref.key = key
    /\ note_ref.field = "attack"
    /\ CbWrite

\* C9 as it is stated: a release() during the attack sets
\* release_time_remaining to release_time, so that the next block is a
\* release block that starts at gain 1 whatever was left of the attack,
\* and attack_time_remaining is not changed from then on.
C9_ReleaseOverridesAttack ==
    [][\A key \in AllKeys :
          /\ ReleaseEndsAttack(key)
          /\ (SameVoice(key)
                /\ Lookup(out_keys, key).release_time_remaining # None) =>
                Lookup(out_keys', key).attack_time_remaining =
                    Lookup(out_keys, key).attack_time_remaining
      ]_vars

\* C9, amended: a release() during the attack sets release_time_remaining
\* to release_time, so that the next samples() call renders a release
\* block that starts at gain 1 whatever was left of the attack; no
\* samples() call that begins after the release takes the attack branch
\* or changes attack_time_remaining; the one change of
\* attack_time_remaining after the release is the write of line 195 by a
\* samples() call that had read it before the release.
C9_ReleaseOverridesAttackButForWriteBack ==
    [][\A key \in AllKeys :
          /\ ReleaseEndsAttack(key)
          /\ (SameVoice(key)
                /\ Lookup(out_keys, key).release_time_remaining # None) =>
                \/ Lookup(out_keys', key).attack_time_remaining =
                      Lookup(out_keys, key).attack_time_remaining
                \/ /\ AttackWriteBack(key)
                   /\ Lookup(out_keys', key).attack_time_remaining =
                         Val(note_ref.value)
      ]_vars

\* A voice was released between the read (line 170) and the write (line
\* 195) of an attack block: the write is still to come.
C9_Witness ==
    \E key \in Keys :
        /\ pc = "write"
        /\ note_ref.key = key
        /\ note_ref.live
        /\ note_ref.field = "attack"
        /\ HasKey(out_keys, key)
        /\ Lookup(out_keys, key).release_time_remaining = Some(release_time)
        /\ rel_frames[key] = 0

\* C10: a change of the oscillator selection (controller 21 or 22) leaves
\* every voice of the registry as it is, its oscillator included; a voice
\* keeps its oscillator as long as it lives, and only a voice created by a
\* later note on gets the new selection.
C10_SelectionLeavesVoicesAlone ==
    [][/\ \A mesg \in ControlMessages :
            (mesg.control \in {21, 22} /\ process_midi_event(mesg)) =>
                out_keys' = out_keys
       /\ \A key \in AllKeys :
            /\ SameVoice(key) =>
                  Lookup(out_keys', key).out_osc = Lookup(out_keys, key).out_osc
            /\ NoteOnStep(key) => Lookup(out_keys', key).out_osc = out_osc
      ]_vars

\* The selection has moved on since a voice of the registry was created.
C10_Witness ==
    \E key \in KeySet(out_keys) :
        /\ Lookup(out_keys, key).out_osc # out_osc
        /\ out_osc # 0

\* The oscillator indices.
OscRange == 0 .. (n_oscillators - 1)

\* C11: the oscillator selection is always an index of oscillators:
\* controller 22 moves it forward by one and controller 21 back by one,
\* both modulo the number of oscillators, and every voice of the registry
\* was created with an index of oscillators.
C11_OscillatorIndexValid ==
    [][/\ out_osc \in OscRange
       /\ out_osc' \in OscRange
       /\ \A mesg \in ControlMessages :
            process_midi_event(mesg) =>
                /\ mesg.control = 22 =>
                      out_osc' = IF out_osc = n_oscillators - 1
                                 THEN 0 ELSE out_osc + 1
                /\ mesg.control = 21 =>
                      out_osc' = IF out_osc = 0
                                 THEN n_oscillators - 1 ELSE out_osc - 1
       /\ \A key \in KeySet(out_keys') :
            Lookup(out_keys', key).out_osc \in OscRange
      ]_vars

\* Controller 21 has wrapped the selection from the first oscillator to
\* the last, and a voice was created with it.
C11_Witness ==
    /\ printed = "program change -"
    /\ out_osc = n_oscillators - 1
    /\ \E key \in KeySet(out_keys) :
          Lookup(out_keys, key).out_osc = n_oscillators - 1

\* Every message the keyboard sends: notes of the key that is played,
\* messages that are ignored, the controller keys.
AllMessages ==
    NoteMessages({FirstKey}) \cup IgnoredMessages \cup ControlMessages

\* C12: process_midi_event returns False (the main loop stops: running
\* becomes FALSE) if and only if the message is a control change of
\* controller 23, and then the registry and the oscillator selection are
\* as they were; every other message returns True, a note off that goes
\* on to line 293 included; after a stop no message is handled any more:
\* every step is a step of the callback.
C12_StopOnlyOnController23 ==
    [][/\ \A mesg \in AllMessages :
            process_midi_event(mesg) =>
                /\ running' = ~(mesg.type = "control_change"
                                  /\ mesg.control = 23)
                /\ ~running' => (out_keys' = out_keys /\ out_osc' = out_osc)
       /\ NoteOffRelease => running'
       /\ ~running =>
            /\ output_callback
            /\ out_osc' = out_osc
            /\ ~running'
      ]_vars

\* The message has no effect on the synthesis.
NoEffect(mesg) ==
    \/ mesg_type(mesg) = "note_off" /\ ~HasKey(out_keys, mesg.note)
    \/ mesg.type = "control_change" /\ mesg.control \notin {21, 22, 23}
    \/ mesg.type = "pitchwheel"
    \/ mesg.type \notin {"note_on", "note_off", "control_change", "pitchwheel"}

\* C14: a note off for a key with no entry in the registry, a control
\* change of a controller that is not known, a pitchwheel and a message of
\* an unknown type leave the registry, the oscillator selection and the
\* sample clock as they were, and return True.
C14_NoEffectEventsChangeNothing ==
    [][\A mesg \in AllMessages :
          (NoEffect(mesg) /\ process_midi_event(mesg)) =>
              /\ out_keys' = out_keys
              /\ out_osc' = out_osc
              /\ sample_clock' = sample_clock
              /\ running'
              /\ main' = main
      ]_vars

\* A message of an unknown type was handled in the middle of a callback,
\* with a voice playing on an oscillator that is not the first.
C14_Witness ==
    /\ printed = "unknown MIDI message"
    /\ running
    /\ out_keys # << >>
    /\ out_osc # 0
    /\ sample_clock > 0
    /\ pc = "render"

\* The step is the end of a call of output_callback.
CallbackEnds == pc = "scale" /\ pc' = "idle"

\* C15: every call of output_callback advances the sample clock by its
\* frame_count, with no voice or with some, with the status flag set or
\* not; nothing else changes it; it is the sum of the frame counts of the
\* blocks written out so far and never goes down.
C15_ClockCountsFrames ==
    [][/\ CallbackEnds => sample_clock' = sample_clock + frame_count
       /\ ~CallbackEnds => sample_clock' = sample_clock
       /\ sample_clock' = frames_out'
       /\ sample_clock' >= sample_clock
      ]_vars

\* Two blocks and more were written, the last one silent, and a callback
\* was called with the status flag set.
C15_Witness ==
    /\ pc = "idle"
    /\ sample_clock >= StartClock + 2 * blocksize
    /\ out_data.voices = 0
    /\ out_data.divisor = MixFloor
    /\ printed = "output callback:"

\* The times a and b, fractions of a second whose denominators are multiples
\* of sample_rate, are the same number; the common factor sample_rate is
\* taken out of the cross-multiplication to keep the products small.
SameTime(a, b) ==
    a[1] * (b[2] \div sample_rate) = b[1] * (a[2] \div sample_rate)

\* C17: the times of a block of n frames that starts at sample clock c are
\* (c + i) / sample_rate for i = 0 .. n - 1, and the first time of the
\* next block is one sample period after the last time of this one.
C17_SampleTimesOnePeriodApart ==
    pc = "render" =>
        LET t == sample_times(frame_count)
            next == linspace(sample_clock + frame_count,
                             sample_clock + 2 * frame_count, frame_count)
        IN  /\ \A i \in 0 .. (frame_count - 1) :
                  SameTime(t[i + 1], << sample_clock + i, sample_rate >>)
            /\ SameTime(<< next[1][1], next[1][2] * sample_rate >>,
                        << t[frame_count][1] + t[frame_count][2] \div sample_rate,
                           t[frame_count][2] >>)

\* C18: whatever the interleaving, the registry accesses of the callback
\* find their key: every key of the snapshot still to be rendered and every
\* key noted for deletion is in the registry.
C18_SnapshotKeysPresent ==
    pc \in {"render", "write", "prune"} =>
        /\ \A i \in 1 .. Len(on_keys) : HasKey(out_keys, on_keys[i])
        /\ \A key \in del_keys : HasKey(out_keys, key)

\* A note on has arrived for a key that is about to be deleted.
C18_Witness ==
    /\ pc = "prune"
    /\ \E key \in del_keys :
          HasKey(out_keys, key) /\ Lookup(out_keys, key).playing

\* The note on with velocity 0 and the note off for a key.
NoteOnZero(key) ==
    [type |-> "note_on", note |-> key, velocity |-> 0, control |-> 0]

NoteOffFor(key) ==
    [type |-> "note_off", note |-> key, velocity |-> 0, control |-> 0]

\* C13: a note on with velocity 0 is handled as the note off for its key:
\* from every state, in misy and in fmlite, the state after the one is the
\* state after the other; it creates and replaces no voice, and releases
\* the voice of the key if there is one (at line 293, which it reaches
\* exactly if the key is in the registry at line 292).
C13_NoteOnZeroIsNoteOff ==
    [][\A key \in Keys \cup FmKeys :
          /\ process_midi_event(NoteOnZero(key))
                <=> process_midi_event(NoteOffFor(key))
          /\ FmMessage(NoteOnZero(key)) <=> FmMessage(NoteOffFor(key))
          /\ process_midi_event(NoteOnZero(key)) =>
                /\ out_keys' = out_keys
                /\ (main'.pc = "release" /\ main'.key = key)
                      <=> HasKey(out_keys, key)
                /\ ~HasKey(out_keys, key) => main' = main
          /\ NoteOffStep(key) =>
                /\ KeyList(out_keys') = KeyList(out_keys)
                /\ \A k \in KeySet(out_keys) :
                      Lookup(out_keys', k) =
                          IF k = key THEN release(Lookup(out_keys, k))
                          ELSE Lookup(out_keys, k)
      ]_vars

\* A voice of misy was released at line 293 and has played one block of
\* its release since, and fmlite's latest key was let go, its callback
\* having played it.
C13_Witness ==
    /\ \E key \in Keys :
          /\ HasKey(out_keys, key)
          /\ rel_frames[key] = blocksize
          /\ Lookup(out_keys, key).release_time_remaining # None
          /\ Lookup(out_keys, key).release_time_remaining # Some(release_time)
    /\ fmlite.released
    /\ fmlite.out_key = None
    /\ fmlite.out_data.kind = "sine"

\* C16: wave_samples interpolates linearly with the fractional part of the
\* virtual index as the weight of the upper neighbour:
\* (1 - frac) * table[i] + frac * table[(i + 1) mod n]; for a whole index
\* it returns table[index], at the wrap from the last entry to entry 0 too.
C16_WaveInterpolatesUpward ==
    wave.out # None =>
        LET idx == (wave.f * wave.t * sample_rate) % (nwavetable * WaveDen)
            i == idx \div WaveDen
            frac == idx % WaveDen
            lower == wave.wavetable[i + 1]
            upper == wave.wavetable[((i + 1) % nwavetable) + 1]
        IN  /\ Val(wave.out) = (WaveDen - frac) * lower + frac * upper
            /\ frac = 0 => Val(wave.out) = WaveDen * lower

\* fmlite's callback has written a block in this step.
FmEmitted == fmlite'.out_data # fmlite.out_data

\* C19: in fmlite, after every message out_frequency is None exactly when
\* out_key is None, and else it is key_to_freq of out_key, the key of the
\* latest note on; a note off clears both if its key is out_key and changes
\* neither if not; every callback writes a block, silence exactly if the
\* latest key has been let go (before the first note on there is no key
\* and the block is silent too), and a sine of the key's frequency if not.
C19_FmliteFrequencyFollowsKey ==
    [][/\ (fmlite'.out_frequency = None) <=> (fmlite'.out_key = None)
       /\ fmlite'.out_key # None =>
            /\ fmlite'.out_key = fmlite'.last_on
            /\ ~fmlite'.released
            /\ fmlite'.out_frequency =
                  Some(key_to_freq(Val(fmlite'.last_on)))
       /\ fmlite'.out_key = None =>
            (fmlite'.last_on = None \/ fmlite'.released)
       /\ \A key \in FmKeys :
            FmMessage(NoteOffFor(key)) =>
                IF fmlite.out_key = Some(key)
                THEN fmlite'.out_key = None /\ fmlite'.out_frequency = None
                ELSE /\ fmlite'.out_key = fmlite.out_key
                     /\ fmlite'.out_frequency = fmlite.out_frequency
       /\ (fmlite.pc # "idle" /\ fmlite'.pc = "idle") => FmEmitted
       /\ FmEmitted =>
            /\ (fmlite'.out_data.kind = "silence")
                  <=> (fmlite.last_on = None \/ fmlite.released)
            /\ fmlite'.out_data.kind = "sine" =>
                  fmlite'.out_data.frequency =
                      Some(key_to_freq(Val(fmlite.last_on)))
      ]_vars

====
